---- MODULE Spec2Model ----
(***************************************************************************)
(* Model of src/src/balance.py: get_balance(page) and run(playwright).     *)
(*                                                                         *)
(* One invocation of run is a sequential process whose position is pc.     *)
(* Every call into Playwright or into the login collaborator either        *)
(* returns or raises an Exception; the outcome is chosen by the            *)
(* environment.  The text of the two page elements is chosen by the        *)
(* environment at the moment inner_text() reads it.                        *)
(***************************************************************************)
EXTENDS Integers, Sequences, FiniteSets, TLC

VARIABLES
    pc,                     \* position of run / get_balance
    browser,                \* "none" | "open" | "closed"
    context,                \* "none" | "open" | "closed"
    page,                   \* "none" | "open"
    trace,                  \* calls made so far, each with its outcome
    exc,                    \* exception propagating inside run, or "none"
    printed,                \* lines written by print, in order
    totalAmtText,           \* inner_text of #totalAmt as read
    divCrntEntrsAmtText,    \* inner_text of #divCrntEntrsAmt as read
    deposit_text,           \* local of get_balance (line 37)
    available_text,         \* local of get_balance (line 42)
    balance_info,           \* <<>> or <<dict returned by get_balance>>
    retval,                 \* value of a pending `return` of run
    returned,               \* <<>> or <<dict handed to run's caller>>
    raised                  \* error that reached run's caller, or "none"

vars == <<pc, browser, context, page, trace, exc, printed, totalAmtText,
          divCrntEntrsAmtText, deposit_text, available_text, balance_info,
          retval, returned, raised>>

(***************************************************************************)
(* Bounds and alphabets                                                    *)
(***************************************************************************)
MaxLen == 2                 \* longest element text explored

Digits == {"0", "3", "5"}   \* sample of the ASCII digits 0-9
\* "w" stands for the currency suffix (a non-ASCII letter in the page)
Chars == Digits \cup {",", ".", "-", " ", "w"}

Texts == UNION {[1..n -> Chars] : n \in 0..MaxLen}

NoError == "none"
WaitErrors == {"TimeoutError", "Error"}

(***************************************************************************)
(* Pure helpers of get_balance                                             *)
(***************************************************************************)
DigitVal(c) == CASE c = "0" -> 0 [] c = "3" -> 3 [] c = "5" -> 5

\* str.strip(): drop leading and trailing whitespace
RECURSIVE LStrip(_)
LStrip(s) == IF s # <<>> /\ Head(s) = " " THEN LStrip(Tail(s)) ELSE s

RECURSIVE RStrip(_)
RStrip(s) ==
    IF s # <<>> /\ s[Len(s)] = " " THEN RStrip(SubSeq(s, 1, Len(s) - 1)) ELSE s

Strip(s) == RStrip(LStrip(s))

\* a plausible slip: the pattern [^1-9] also removes the zeros
RECURSIVE ReSubDropZero(_)
ReSubDropZero(s) ==
    IF s = <<>> THEN <<>>
    ELSE IF Head(s) \in Digits \ {"0"} THEN <<Head(s)>> \o ReSubDropZero(Tail(s))
         ELSE ReSubDropZero(Tail(s))

\* a plausible slip: the pattern [^0-9-] keeps the minus sign
RECURSIVE ReSubKeepMinus(_)
ReSubKeepMinus(s) ==
    IF s = <<>> THEN <<>>
    ELSE IF Head(s) \in Digits \cup {"-"} THEN <<Head(s)>> \o ReSubKeepMinus(Tail(s))
         ELSE ReSubKeepMinus(Tail(s))

\* re.sub(r'[^0-9]', '', s): delete every character that is not 0-9
RECURSIVE ReSubNonDigits(_)
ReSubNonDigits(s) ==
    IF s = <<>> THEN <<>>
    ELSE IF Head(s) \in Digits THEN <<Head(s)>> \o ReSubNonDigits(Tail(s))
         ELSE ReSubNonDigits(Tail(s))

\* value of a non-empty all-digit string, most significant digit first
RECURSIVE DecimalValue(_)
DecimalValue(s) ==
    IF s = <<>> THEN 0
    ELSE 10 * DecimalValue(SubSeq(s, 1, Len(s) - 1)) + DigitVal(s[Len(s)])

AllDigits(s) == s # <<>> /\ \A i \in 1..Len(s) : s[i] \in Digits

\* int(s): surrounding whitespace ignored, optional minus sign, then digits;
\* anything else (the empty string included) is a ValueError
IntOf(s) ==
    LET t == Strip(s) IN
    IF AllDigits(t) THEN [ok |-> TRUE, val |-> DecimalValue(t)]
    ELSE IF t # <<>> /\ Head(t) = "-" /\ AllDigits(Tail(t))
         THEN [ok |-> TRUE, val |-> 0 - DecimalValue(Tail(t))]
         ELSE [ok |-> FALSE, val |-> 0]

\* a plausible slip: no guard for the empty string
ParseAmountNoGuard(str) == IntOf(str)

\* int(x_str) if x_str else 0
ParseAmount(str) == IF str # <<>> THEN IntOf(str) ELSE [ok |-> TRUE, val |-> 0]

(***************************************************************************)
(* Initial state: run has been called, nothing is acquired yet             *)
(***************************************************************************)
Init ==
    /\ pc = "launch"
    /\ browser = "none"
    /\ context = "none"
    /\ page = "none"
    /\ trace = <<>>
    /\ exc = NoError
    /\ printed = <<>>
    /\ totalAmtText = <<>>
    /\ divCrntEntrsAmtText = <<>>
    /\ deposit_text = <<>>
    /\ available_text = <<>>
    /\ balance_info = <<>>
    /\ retval = <<>>
    /\ returned = <<>>
    /\ raised = NoError

Call(op, res) == [op |-> op, res |-> res]

\* an exception leaves run without passing through try/except/finally
Escape(op, err) ==
    /\ trace' = Append(trace, Call(op, err))
    /\ raised' = err
    /\ pc' = "done"

\* an exception raised inside the try block of run
RaiseInTry(op, err) ==
    /\ trace' = Append(trace, Call(op, err))
    /\ exc' = err
    /\ pc' = "except"

\* a plausible slip: the acquisition sits inside the try block
NewContextGuarded ==
    /\ pc = "new_context"
    /\ \/ /\ context' = "open"
          /\ trace' = Append(trace, Call("new_context", "ok"))
          /\ pc' = "new_page"
          /\ UNCHANGED <<exc, raised>>
       \/ /\ RaiseInTry("new_context", "NewContextError")
          /\ UNCHANGED <<context, raised>>
    /\ UNCHANGED <<browser, page, printed, totalAmtText, divCrntEntrsAmtText,
                   deposit_text, available_text, balance_info, retval, returned>>

(***************************************************************************)
(* run, lines 62-64: acquisition, outside the try block                    *)
(***************************************************************************)
Launch ==
    /\ pc = "launch"
    /\ \/ /\ browser' = "open"
          /\ trace' = Append(trace, Call("launch", "ok"))
          /\ pc' = "new_context"
          /\ UNCHANGED raised
       \/ /\ Escape("launch", "LaunchError")
          /\ UNCHANGED browser
    /\ UNCHANGED <<context, page, exc, printed, totalAmtText,
                   divCrntEntrsAmtText, deposit_text, available_text,
                   balance_info, retval, returned>>

NewContext ==
    /\ pc = "new_context"
    /\ \/ /\ context' = "open"
          /\ trace' = Append(trace, Call("new_context", "ok"))
          /\ pc' = "new_page"
          /\ UNCHANGED raised
       \/ /\ Escape("new_context", "NewContextError")
          /\ UNCHANGED context
    /\ UNCHANGED <<browser, page, exc, printed, totalAmtText,
                   divCrntEntrsAmtText, deposit_text, available_text,
                   balance_info, retval, returned>>

NewPage ==
    /\ pc = "new_page"
    /\ \/ /\ page' = "open"
          /\ trace' = Append(trace, Call("new_page", "ok"))
          /\ pc' = "login"
          /\ UNCHANGED raised
       \/ /\ Escape("new_page", "NewPageError")
          /\ UNCHANGED page
    /\ UNCHANGED <<browser, context, exc, printed, totalAmtText,
                   divCrntEntrsAmtText, deposit_text, available_text,
                   balance_info, retval, returned>>

Frame == <<browser, context, page, printed, totalAmtText, divCrntEntrsAmtText,
           deposit_text, available_text, balance_info, retval, returned,
           raised>>

\* a plausible slip: a failed login is attempted a second time
LoginRetry ==
    /\ pc = "login"
    /\ \/ /\ trace' = Append(trace, Call("login", "ok"))
          /\ pc' = "goto"
          /\ UNCHANGED exc
       \/ /\ \A i \in 1..Len(trace) : trace[i].op # "login"
          /\ trace' = Append(trace, Call("login", "LoginError"))
          /\ UNCHANGED <<pc, exc>>
       \/ RaiseInTry("login", "LoginError")
    /\ UNCHANGED Frame

(***************************************************************************)
(* run, line 68: login(page)                                               *)
(***************************************************************************)
Login ==
    /\ pc = "login"
    /\ \/ /\ trace' = Append(trace, Call("login", "ok"))
          /\ pc' = "goto"
          /\ UNCHANGED exc
       \/ RaiseInTry("login", "LoginError")
    /\ UNCHANGED Frame

(***************************************************************************)
(* get_balance, line 26: page.goto(..., timeout=0).  With timeout=0 the    *)
(* navigation has no deadline, so the errors it can raise are navigation   *)
(* errors, never a timeout.                                                *)
(***************************************************************************)
Goto ==
    /\ pc = "goto"
    /\ \/ /\ trace' = Append(trace, Call("goto", "ok"))
          /\ pc' = "wait_for_selector"
          /\ UNCHANGED exc
       \/ RaiseInTry("goto", "Error")
    /\ UNCHANGED Frame

\* a plausible slip: the timeout of the wait is swallowed
WaitForSelectorIgnoreTimeout ==
    /\ pc = "wait_for_selector"
    /\ \/ /\ trace' = Append(trace, Call("wait_for_selector", "ok"))
          /\ pc' = "deposit_inner_text"
          /\ UNCHANGED exc
       \/ /\ trace' = Append(trace, Call("wait_for_selector", "TimeoutError"))
          /\ pc' = "deposit_inner_text"
          /\ UNCHANGED exc
       \/ RaiseInTry("wait_for_selector", "Error")
    /\ UNCHANGED Frame

(***************************************************************************)
(* get_balance, line 32: wait up to 10 s for #totalAmt to be visible       *)
(***************************************************************************)
WaitForSelector ==
    /\ pc = "wait_for_selector"
    /\ \/ /\ trace' = Append(trace, Call("wait_for_selector", "ok"))
          /\ pc' = "deposit_inner_text"
          /\ UNCHANGED exc
       \/ \E err \in WaitErrors : RaiseInTry("wait_for_selector", err)
    /\ UNCHANGED Frame

(***************************************************************************)
(* get_balance, lines 36-37: deposit_el.inner_text().strip()               *)
(***************************************************************************)
DepositInnerText ==
    /\ pc = "deposit_inner_text"
    /\ \/ \E text \in Texts :
            /\ totalAmtText' = text
            /\ deposit_text' = Strip(text)
            /\ trace' = Append(trace, Call("deposit_inner_text", "ok"))
            /\ pc' = "available_inner_text"
            /\ UNCHANGED exc
       \/ /\ RaiseInTry("deposit_inner_text", "Error")
          /\ UNCHANGED <<totalAmtText, deposit_text>>
    /\ UNCHANGED <<browser, context, page, printed, divCrntEntrsAmtText,
                   available_text, balance_info, retval, returned, raised>>

(***************************************************************************)
(* get_balance, lines 41-42: available_el.inner_text().strip()             *)
(***************************************************************************)
AvailableInnerText ==
    /\ pc = "available_inner_text"
    /\ \/ \E text \in Texts :
            /\ divCrntEntrsAmtText' = text
            /\ available_text' = Strip(text)
            /\ trace' = Append(trace, Call("available_inner_text", "ok"))
            /\ pc' = "parse"
            /\ UNCHANGED exc
       \/ /\ RaiseInTry("available_inner_text", "Error")
          /\ UNCHANGED <<divCrntEntrsAmtText, available_text>>
    /\ UNCHANGED <<browser, context, page, printed, totalAmtText,
                   deposit_text, balance_info, retval, returned, raised>>

(***************************************************************************)
(* get_balance, lines 46-55: strip non-digits, parse, build the dict       *)
(***************************************************************************)
Parse ==
    /\ pc = "parse"
    /\ LET deposit_str == ReSubNonDigits(deposit_text)
           available_str == ReSubNonDigits(available_text)
           deposit_balance == ParseAmount(deposit_str)
           available_amount == ParseAmount(available_str)
       IN  IF deposit_balance.ok /\ available_amount.ok
           THEN /\ balance_info' =
                     <<[deposit_balance |-> deposit_balance.val,
                        available_amount |-> available_amount.val]>>
                /\ trace' = Append(trace, Call("parse", "ok"))
                /\ pc' = "print"
                /\ UNCHANGED exc
           ELSE /\ RaiseInTry("parse", "ValueError")
                /\ UNCHANGED balance_info
    /\ UNCHANGED <<browser, context, page, printed, totalAmtText,
                   divCrntEntrsAmtText, deposit_text, available_text, retval,
                   returned, raised>>

(***************************************************************************)
(* run, lines 74-77: print the two lines, then `return balance_info`;      *)
(* the return value is pending while the finally block runs                *)
(***************************************************************************)
PrintAndReturn ==
    /\ pc = "print"
    /\ printed' = printed \o <<"deposit_balance", "available_amount">>
    /\ retval' = balance_info
    /\ pc' = "finally_context"
    /\ UNCHANGED <<browser, context, page, trace, exc, totalAmtText,
                   divCrntEntrsAmtText, deposit_text, available_text,
                   balance_info, returned, raised>>

(***************************************************************************)
(* run, lines 79-81: except Exception as e: print(...); raise              *)
(***************************************************************************)
Except ==
    /\ pc = "except"
    /\ printed' = Append(printed, "error")
    /\ pc' = "finally_context"
    /\ UNCHANGED <<browser, context, page, trace, exc, totalAmtText,
                   divCrntEntrsAmtText, deposit_text, available_text,
                   balance_info, retval, returned, raised>>

\* a plausible slip: the browser close is attempted even when the context
\* close raised
FinallyContextThenBrowser ==
    /\ pc = "finally_context"
    /\ \/ /\ context' = "closed"
          /\ trace' = Append(trace, Call("context.close", "ok"))
          /\ UNCHANGED <<exc, retval>>
       \/ /\ trace' = Append(trace, Call("context.close", "ContextCloseError"))
          /\ exc' = "ContextCloseError"
          /\ retval' = <<>>
          /\ UNCHANGED context
    /\ pc' = "finally_browser"
    /\ UNCHANGED <<browser, page, printed, totalAmtText, divCrntEntrsAmtText,
                   deposit_text, available_text, balance_info, returned,
                   raised>>

(***************************************************************************)
(* run, line 84: context.close() in the finally block.  An exception       *)
(* raised here replaces the propagating exception or the pending return    *)
(* and leaves run at once (line 85 is skipped).                            *)
(***************************************************************************)
FinallyContext ==
    /\ pc = "finally_context"
    /\ \/ /\ context' = "closed"
          /\ trace' = Append(trace, Call("context.close", "ok"))
          /\ pc' = "finally_browser"
          /\ UNCHANGED <<exc, retval, raised>>
       \/ /\ Escape("context.close", "ContextCloseError")
          /\ exc' = "ContextCloseError"
          /\ retval' = <<>>
          /\ UNCHANGED context
    /\ UNCHANGED <<browser, page, printed, totalAmtText, divCrntEntrsAmtText,
                   deposit_text, available_text, balance_info, returned>>

(***************************************************************************)
(* run, line 85: browser.close(); then run hands control to its caller,    *)
(* re-raising the propagating exception or returning the pending value     *)
(***************************************************************************)
FinallyBrowser ==
    /\ pc = "finally_browser"
    /\ \/ /\ browser' = "closed"
          /\ trace' = Append(trace, Call("browser.close", "ok"))
          /\ raised' = exc
          /\ returned' = IF exc = NoError THEN retval ELSE <<>>
          /\ pc' = "done"
          /\ UNCHANGED <<exc, retval>>
       \/ /\ Escape("browser.close", "BrowserCloseError")
          /\ exc' = "BrowserCloseError"
          /\ retval' = <<>>
          /\ UNCHANGED <<browser, returned>>
    /\ UNCHANGED <<context, page, printed, totalAmtText, divCrntEntrsAmtText,
                   deposit_text, available_text, balance_info>>

Next ==
    \/ Launch
    \/ NewContext
    \/ NewPage
    \/ Login
    \/ Goto
    \/ WaitForSelector
    \/ DepositInnerText
    \/ AvailableInnerText
    \/ Parse
    \/ PrintAndReturn
    \/ Except
    \/ FinallyContext
    \/ FinallyBrowser

Spec == Init /\ [][Next]_vars

(***************************************************************************)
(* Vocabulary of the properties                                            *)
(***************************************************************************)
AcquireOps == {"launch", "new_context", "new_page"}
ExtractOps == {"deposit_inner_text", "available_inner_text", "parse"}
CleanupOps == {"context.close", "browser.close"}
TryOps == {"login", "goto", "wait_for_selector"} \cup ExtractOps

Happened(op, res) == \E i \in 1..Len(trace) : trace[i] = Call(op, res)
Called(op) == \E i \in 1..Len(trace) : trace[i].op = op
CallCount(op) == Cardinality({i \in 1..Len(trace) : trace[i].op = op})
FailedIn(ops) ==
    \E i \in 1..Len(trace) : trace[i].op \in ops /\ trace[i].res # "ok"

\* the error first raised by login or get_balance, if any
TryError ==
    IF FailedIn(TryOps)
    THEN LET i == CHOOSE k \in 1..Len(trace) :
                      trace[k].op \in TryOps /\ trace[k].res # "ok"
         IN  trace[i].res
    ELSE NoError

ErrorLines == Cardinality({i \in 1..Len(printed) : printed[i] = "error"})

HasDigit(text) == \E i \in 1..Len(text) : text[i] \in Digits

RECURSIVE Pow10(_)
Pow10(n) == IF n = 0 THEN 1 ELSE 10 * Pow10(n - 1)

RECURSIVE SumOver(_, _)
SumOver(f, S) ==
    IF S = {} THEN 0
    ELSE LET x == CHOOSE y \in S : TRUE IN f[x] + SumOver(f, S \ {x})

\* the integer written by the digit characters of text, in their order:
\* each digit weighs ten to the number of digits that follow it
DigitsValue(text) ==
    LET pos == {i \in 1..Len(text) : text[i] \in Digits}
        after(i) == Cardinality({j \in pos : j > i})
        term == [i \in pos |-> DigitVal(text[i]) * Pow10(after(i))]
    IN  SumOver(term, pos)

\* the step of the pipeline launch, login, navigate, wait, extract, cleanup
\* that a call belongs to
StepOf(op) ==
    CASE op \in AcquireOps -> 1
      [] op = "login" -> 2
      [] op = "goto" -> 3
      [] op = "wait_for_selector" -> 4
      [] op \in ExtractOps -> 5
      [] op \in CleanupOps -> 6

(***************************************************************************)
(* C1: on every exit of run after browser, context and page were created,  *)
(* the context has been closed exactly once and the browser has been       *)
(* closed exactly once.                                                    *)
(***************************************************************************)
C1_ClosedExactlyOnce ==
    (pc = "done" /\ page = "open") =>
        /\ context = "closed" /\ CallCount("context.close") = 1
        /\ browser = "closed" /\ CallCount("browser.close") = 1

(***************************************************************************)
(* C2: when login or get_balance raised, run prints exactly one error      *)
(* message, returns no result, and the error that reaches the caller is    *)
(* the error originally raised.                                            *)
(***************************************************************************)
C2_OriginalErrorReraised ==
    (pc = "done" /\ TryError # NoError) =>
        /\ ErrorLines = 1
        /\ returned = <<>>
        /\ raised = TryError

(***************************************************************************)
(* C3: when the wait for #totalAmt times out, get_balance fails with the   *)
(* timeout error and nothing is extracted: no element text is read, no     *)
(* amount is parsed, no result dictionary exists.                          *)
(***************************************************************************)
C3_TimeoutNoPartialExtraction ==
    Happened("wait_for_selector", "TimeoutError") =>
        /\ \A op \in ExtractOps : ~Called(op)
        /\ totalAmtText = <<>> /\ divCrntEntrsAmtText = <<>>
        /\ balance_info = <<>> /\ retval = <<>> /\ returned = <<>>
        /\ TryError = "TimeoutError"
        /\ pc \in {"except", "finally_context", "finally_browser", "done"}
        /\ pc = "except" => exc = "TimeoutError"

C3_Witness ==
    /\ pc = "done"
    /\ Happened("wait_for_selector", "TimeoutError")
    /\ raised = "TimeoutError"

(***************************************************************************)
(* C4: for an element text with at least one digit, the amount returned    *)
(* for that field is the integer written by the text's digit characters    *)
(* in their original order, every other character dropped.                 *)
(***************************************************************************)
C4_DigitsInOrder ==
    balance_info # <<>> =>
        /\ HasDigit(totalAmtText) =>
               balance_info[1].deposit_balance = DigitsValue(totalAmtText)
        /\ HasDigit(divCrntEntrsAmtText) =>
               balance_info[1].available_amount = DigitsValue(divCrntEntrsAmtText)

C4_Witness ==
    /\ pc = "done"
    /\ totalAmtText = <<"5", ",">>
    /\ divCrntEntrsAmtText = <<"3", "w">>
    /\ returned = <<[deposit_balance |-> 5, available_amount |-> 3]>>

(***************************************************************************)
(* C5: a text that is empty, whitespace-only or without any digit gives 0  *)
(* for its field and raises no error, for each field independently of the  *)
(* other.                                                                  *)
(***************************************************************************)
C5_NoDigitIsZero ==
    /\ ~Happened("parse", "ValueError")
    /\ Happened("available_inner_text", "ok") =>
           pc \in {"parse", "print", "finally_context", "finally_browser", "done"}
    /\ balance_info # <<>> =>
        /\ ~HasDigit(totalAmtText) =>
               /\ balance_info[1].deposit_balance = 0
               /\ HasDigit(divCrntEntrsAmtText) =>
                      balance_info[1].available_amount =
                          DigitsValue(divCrntEntrsAmtText)
        /\ ~HasDigit(divCrntEntrsAmtText) =>
               /\ balance_info[1].available_amount = 0
               /\ HasDigit(totalAmtText) =>
                      balance_info[1].deposit_balance = DigitsValue(totalAmtText)

C5_Witness ==
    /\ pc = "done"
    /\ totalAmtText = <<"3", "5">>
    /\ divCrntEntrsAmtText = <<"w">>
    /\ returned = <<[deposit_balance |-> 35, available_amount |-> 0]>>

(***************************************************************************)
(* C6: every result of get_balance, and so of run, holds exactly the two   *)
(* fields deposit_balance and available_amount, each a non-negative        *)
(* integer, whatever the element texts contain.                            *)
(***************************************************************************)
C6_NonNegativeFields ==
    \A r \in {balance_info, retval, returned} :
        r # <<>> =>
            /\ DOMAIN r[1] = {"deposit_balance", "available_amount"}
            /\ r[1].deposit_balance \in Nat
            /\ r[1].available_amount \in Nat

C6_Witness ==
    /\ pc = "done"
    /\ totalAmtText = <<"-", "5">>
    /\ divCrntEntrsAmtText = <<".", "3">>
    /\ returned = <<[deposit_balance |-> 5, available_amount |-> 3]>>

(***************************************************************************)
(* C7: the calls of one invocation follow the order launch, login,         *)
(* navigate, wait, extract, cleanup; no call is made twice; after a call   *)
(* failed, only cleanup calls follow.                                      *)
(***************************************************************************)
C7_StrictSequence ==
    \A i, j \in 1..Len(trace) :
        i < j =>
            /\ StepOf(trace[i].op) <= StepOf(trace[j].op)
            /\ trace[i].op # trace[j].op
            /\ trace[i].res # "ok" => trace[j].op \in CleanupOps

C7_Witness ==
    /\ pc = "done"
    /\ Happened("goto", "Error")
    /\ Happened("context.close", "ok")
    /\ Happened("browser.close", "ok")

(***************************************************************************)
(* C8: whenever run hands control back to its caller, the browser it       *)
(* launched has already been closed.                                       *)
(***************************************************************************)
C8_BrowserClosedOnExit ==
    (pc = "done" /\ Happened("launch", "ok")) => browser = "closed"

\* every call of run returns or raises (the wait is bounded by its 10 s
\* timeout, login and goto by assumption), so run keeps taking steps
FairSpec == Spec /\ WF_vars(Next)

\* the termination part of C8: every invocation of run reaches its caller
C8_Terminates == <>(pc = "done")

(***************************************************************************)
(* C9: the browser close is attempted only after the context close         *)
(* returned; if the context close raises, the browser is never closed and  *)
(* the error leaving run is the context-close error.                       *)
(***************************************************************************)
C9_ContextCloseFirst ==
    /\ \A j \in 1..Len(trace) :
           trace[j].op = "browser.close" =>
               \E i \in 1..(j - 1) : trace[i] = Call("context.close", "ok")
    /\ Happened("context.close", "ContextCloseError") =>
           /\ ~Called("browser.close")
           /\ browser = "open"
           /\ pc = "done"
           /\ raised = "ContextCloseError"
           /\ returned = <<>>

C9_Witness ==
    /\ pc = "done"
    /\ Happened("login", "LoginError")
    /\ Happened("context.close", "ContextCloseError")
    /\ raised = "ContextCloseError"
    /\ browser = "open"

(***************************************************************************)
(* C10: a failure while acquiring browser, context or page reaches the     *)
(* caller with no message printed and no close call made; what was         *)
(* acquired before stays open.                                             *)
(***************************************************************************)
C10_AcquisitionUnguarded ==
    FailedIn(AcquireOps) =>
        /\ pc = "done"
        /\ printed = <<>>
        /\ \A op \in CleanupOps : ~Called(op)
        /\ raised = trace[Len(trace)].res /\ raised # NoError
        /\ returned = <<>>
        /\ Happened("launch", "ok") => browser = "open"
        /\ Happened("new_context", "ok") => context = "open"

C10_Witness ==
    /\ pc = "done"
    /\ Happened("new_page", "NewPageError")
    /\ browser = "open"
    /\ context = "open"
====
